---------------------------- MODULE Spec2Model ----------------------------
(***************************************************************************)
(* A model of aibuddy.py, the command-line assistant that turns a          *)
(* description into a shell command with the help of a local completion    *)
(* server.  One behaviour is one invocation of the command-line program:   *)
(* Init is the process right after click has parsed argv, the actions are  *)
(* the steps of the handlers generate, explain, fix and server and of the  *)
(* functions they call (call_llm_api, start_server, execute_command,       *)
(* fix_command_errors, save_history), and the environment (the completion  *)
(* server, the shell, the user at the prompt) answers nondeterministically.*)
(*                                                                         *)
(* Python strings are TLA+ strings, and the string methods the program     *)
(* uses (strip, split, join, replace, lower, startswith, endswith, in) are *)
(* operators computed character by character.  A TLA+ string cannot hold   *)
(* the backquote, so the character ^ stands for it: a Markdown fence is    *)
(* written ^^^.  Optional[str] is a sequence of at most one string: None   *)
(* is << >> and the string s is << s >>.                                   *)
(***************************************************************************)
EXTENDS Integers, Sequences, FiniteSets, TLC

-----------------------------------------------------------------------------
(* Python's string methods *)

\* the fence delimiter of a Markdown code block (three backquotes)
FENCE == "^^^"

\* the characters str.strip() removes
Whitespace == {" ", "\n", "\t", "\r"}

UpperLetters == "ABCDEFGHIJKLMNOPQRSTUVWXYZ"
LowerLetters == "abcdefghijklmnopqrstuvwxyz"

\* the i-th character of s, as a string of length 1
CharAt(s, i) == SubSeq(s, i, i)

\* needle in s
Contains(s, needle) ==
    \E i \in 1..(Len(s) - Len(needle) + 1) : SubSeq(s, i, i + Len(needle) - 1) = needle

\* s.startswith(p)
StartsWith(s, p) == Len(p) <= Len(s) /\ SubSeq(s, 1, Len(p)) = p

\* s.endswith(p)
EndsWith(s, p) == Len(p) <= Len(s) /\ SubSeq(s, Len(s) - Len(p) + 1, Len(s)) = p

\* one character of s.lower()
LowerChar(c) ==
    IF \E k \in 1..Len(UpperLetters) : CharAt(UpperLetters, k) = c
    THEN LET k == CHOOSE j \in 1..Len(UpperLetters) : CharAt(UpperLetters, j) = c
         IN  CharAt(LowerLetters, k)
    ELSE c

RECURSIVE Lower(_)
\* s.lower()
Lower(s) == IF s = "" THEN "" ELSE LowerChar(CharAt(s, 1)) \o Lower(Tail(s))

\* s.strip()
Strip(s) ==
    LET keep == {i \in 1..Len(s) : CharAt(s, i) \notin Whitespace}
    IN  IF keep = {} THEN ""
        ELSE SubSeq(s, CHOOSE i \in keep : \A j \in keep : i <= j,
                       CHOOSE i \in keep : \A j \in keep : j <= i)

RECURSIVE Split(_, _)
\* s.split(sep), for a separator of one character: the pieces, as a sequence
Split(s, sep) ==
    LET at == {i \in 1..Len(s) : CharAt(s, i) = sep}
    IN  IF at = {} THEN << s >>
        ELSE LET i == CHOOSE k \in at : \A j \in at : k <= j
             IN  << SubSeq(s, 1, i - 1) >> \o Split(SubSeq(s, i + 1, Len(s)), sep)

RECURSIVE Join(_, _)
\* sep.join(parts)
Join(sep, parts) ==
    IF parts = << >> THEN ""
    ELSE IF Len(parts) = 1 THEN parts[1]
    ELSE parts[1] \o sep \o Join(sep, Tail(parts))

RECURSIVE Remove(_, _)
\* s.replace(old, ""): every occurrence of old, left to right, removed
Remove(s, old) ==
    IF Len(s) < Len(old) THEN s
    ELSE IF StartsWith(s, old) THEN Remove(SubSeq(s, Len(old) + 1, Len(s)), old)
    ELSE CharAt(s, 1) \o Remove(Tail(s), old)

\* Optional[str]: None, and the value of a string
None == << >>
Some(s) == << s >>
\* Python's truth value of an Optional[str]: None and "" are false
Truthy(r) == r # None /\ r[1] # ""


-----------------------------------------------------------------------------
(* The pure parts of the program *)

\* the tokens that make a command sensitive (execute_command)
DangerWords == {"rm", "sudo", "dd", "mkfs", "> /dev", "chmod", "reboot", "shutdown"}

\* Sensitive, were only the start of the command compared with the tokens
SensitiveAtStart(command) == \E w \in DangerWords : StartsWith(command, w)

\* any(danger_word in command for danger_word in [...])
Sensitive(command) == \E w \in DangerWords : Contains(command, w)

\* what execute_command returns when the confirmation is declined
CancelledText == "Command execution cancelled."

\* execute_command's return value for a finished subprocess: stdout, and stderr
\* after a separator when stderr is not empty
CombinedOutput(stdout, stderr) ==
    IF stderr # "" THEN stdout \o "\nErrors:\n" \o stderr ELSE stdout

\* execute_command's return value when running the command raised
ExceptionOutput(msg) == "Error executing command: " \o msg

\* the test of fix on the output of the command
FixSeesError(output) ==
    \/ Contains(Lower(output), "error")
    \/ Contains(Lower(output), "not found")
    \/ Contains(Lower(output), "command not found")

\* the test of generate on the output of the command
GenerateSeesError(output) ==
    Contains(Lower(output), "error") \/ Contains(Lower(output), "not found")

\* the prompt of generate
GeneratePrompt(description) ==
    "Generate a Linux bash command that will: " \o description
        \o "\nProvide ONLY the command with NO explanations."

\* the prompt of explain
ExplainPrompt(cmdStr) ==
    "Explain what this Linux command does in detail:\n    \n" \o cmdStr
        \o "\n\nBreak down each part of the command, any options/flags used, and potential side effects or security considerations."

\* the prompt of fix_command_errors
RepairPrompt(errorText, originalCommand) ==
    "\nThe following Linux command failed:\n\n" \o FENCE \o "\n" \o originalCommand
        \o "\n" \o FENCE \o "\n\nWith this error:\n" \o FENCE \o "\n" \o errorText \o "\n"
        \o FENCE
        \o "\n\nPlease provide a corrected version of the command that will work, and briefly explain what was wrong.\n"

\* lst[1:-1]
Inner(lst) == SubSeq(lst, 2, Len(lst) - 1)

\* generate's extraction of the command from the response
DirectExtract(response) ==
    LET stripped == Strip(response)
        unfenced == IF StartsWith(stripped, FENCE) /\ EndsWith(stripped, FENCE)
                    THEN Join("\n", Inner(Split(stripped, "\n")))
                    ELSE stripped
    IN  Strip(Remove(Remove(Remove(unfenced, FENCE \o "bash"), FENCE \o "shell"), FENCE))

RECURSIVE ScanLines(_, _)
\* the loop of fix_command_errors over the lines of the response: command_lines
ScanLines(lines, inCodeBlock) ==
    IF lines = << >> THEN << >>
    ELSE LET line == Head(lines)
         IN  IF StartsWith(Strip(line), FENCE)
             THEN ScanLines(Tail(lines), ~inCodeBlock)
             ELSE IF inCodeBlock /\ Strip(line) # "" /\ ~StartsWith(line, "#")
             THEN << line >> \o ScanLines(Tail(lines), inCodeBlock)
             ELSE ScanLines(Tail(lines), inCodeBlock)

\* command_lines of fix_command_errors for a response
ScanExtract(response) == ScanLines(Split(response, "\n"), FALSE)

\* the number of entries save_history keeps
HistoryCap == 100

\* save_history keeping the first entries instead of the last
SaveHistoryKeepsOldest(h, description, command) ==
    LET appended == Append(h, [description |-> description, command |-> command])
    IN  IF Len(appended) > HistoryCap
        THEN SubSeq(appended, 1, HistoryCap)
        ELSE appended

\* save_history: the history file after appending one entry
\* (an entry's timestamp, the time of the call, is left out)
SaveHistory(h, description, command) ==
    LET appended == Append(h, [description |-> description, command |-> command])
    IN  IF Len(appended) > HistoryCap
        THEN SubSeq(appended, Len(appended) - HistoryCap + 1, Len(appended))
        ELSE appended

\* the number of health probes call_llm_api makes after starting the server
MaxPolls == 10

-----------------------------------------------------------------------------
(* The inputs of one invocation and the answers of the environment *)

\* argv of `fix` and of `explain`: the words of the command
CommandArgs ==
    { << "ls", "-la" >>, << "catt", "file.txt" >>, << "rm", "-rf", "/tmp/x" >>,
      << "echo", "inform" >> }

\* argv of `generate`: the description
Descriptions == { "list files in current directory" }

\* what the model may answer (the content of the first choice)
Responses ==
    { "",
      "ls -la",
      "I cannot help with that.",
      FENCE \o "bash\nrm -rf /tmp/x\n" \o FENCE,
      FENCE \o "bash ls" \o FENCE,
      FENCE \o "\n" \o FENCE,
      FENCE \o "\n# nothing to fix\n" \o FENCE,
      "Try this:\n" \o FENCE \o "\n  # fixed\ncat file.txt\n" \o FENCE \o "\n" }

\* the HTTP statuses of a completion request that is answered without success
ErrorStatuses == { 500 }

\* how a completion request may end: an HTTP answer with a status and a body
\* that holds choices[0].message.content or does not, or a transport fault
PostAnswers ==
    [kind : {"http"}, status : {200}, wellFormed : {TRUE}, content : Responses]
        \cup [kind : {"http"}, status : ErrorStatuses \cup {200}, wellFormed : {FALSE},
              content : {""}]
        \cup [kind : {"fault"}, status : {0}, wellFormed : {FALSE}, content : {""}]

\* what a subprocess may write and how it may exit
Stdouts == { "", "0 errors\n", CancelledText }
Stderrs == { "", "warning: x is deprecated\n", "sh: 1: catt: Not Found\n" }
ExitStatuses == { 0, 1 }

\* the messages of the exceptions subprocess.run may raise
ExceptionMessages == { "embedded null byte" }

-----------------------------------------------------------------------------
(* The state *)

VARIABLES
    server,       \* the completion server: "down", "starting" or "up"
    modelExists,  \* os.path.exists(model_path)
    history,      \* the content of HISTORY_FILE
    sub,          \* the subcommand of this invocation
    arg,          \* its argument: the description, or the words of the command
    execute,      \* generate's --execute
    pc,           \* where the invocation is
    frames,       \* where the pending calls return to, innermost first
    ret,          \* the value the last finished call returned (Optional[str])
    prompt,       \* call_llm_api's prompt
    polls,        \* the iterations of call_llm_api's waiting loop made so far
    probe,        \* the last answer of is_server_running in the current call
    command,      \* generate's command, fix's cmd_str
    output,       \* generate's and fix's output
    execArg,      \* execute_command's command
    exitCode,     \* the exit status of the process once sys.exit was called
    events        \* what the invocation did to the outside, in order

vars == << server, modelExists, history, sub, arg, execute, pc, frames, ret,
           prompt, polls, probe, command, output, execArg, exitCode, events >>

env == << server, modelExists >>
argv == << sub, arg, execute >>

\* the events: a line printed, a question asked and its answer, a completion
\* request sent, a launcher started, a subprocess started
Echo(text) == [kind |-> "echo", text |-> text]
Confirm(question, answer) == [kind |-> "confirm", text |-> question, answer |-> answer]
Post(p, answer) == [kind |-> "post", text |-> p, answer |-> answer]
Launch(by, lastProbe) == [kind |-> "launch", text |-> by, probe |-> lastProbe]
Run(cmd, status, stdout, stderr) ==
    [kind |-> "run", text |-> cmd, status |-> status, stdout |-> stdout, stderr |-> stderr]

Running == pc \notin {"done", "exited"}

Init ==
    /\ server \in {"down", "up"}
    /\ modelExists \in BOOLEAN
    /\ history = << >>
    /\ \/ sub = "generate" /\ arg \in Descriptions /\ execute \in BOOLEAN
       \/ sub \in {"fix", "explain"} /\ arg \in CommandArgs /\ execute = FALSE
       \/ sub = "server" /\ arg = << >> /\ execute = FALSE
    /\ pc = sub
    /\ frames = << >>
    /\ ret = None
    /\ prompt = ""
    /\ polls = 0
    /\ probe = "none"
    /\ command = ""
    /\ output = ""
    /\ execArg = ""
    /\ exitCode = 0
    /\ events = << >>

-----------------------------------------------------------------------------
(* is_server_running, start_server, call_llm_api *)

\* is_server_running(host, port): whether GET /health answers 200
IsServerRunning == server = "up"

ProbeAnswer == IF IsServerRunning THEN "up" ELSE "down"

\* the launcher's effect on the server: llama-server starts unless one is there
Launched == IF server = "down" THEN "starting" ELSE server

\* start_server(config), called by `by`; returns to `next`
StartServer(by, next) ==
    IF ~modelExists
    THEN /\ events' = Append(events, Echo("Error: Model not found"))
         /\ pc' = "exited"
         /\ exitCode' = 1
         /\ UNCHANGED << server, frames, polls, probe >>
    ELSE /\ events' = events \o << Launch(by, probe), Echo("Server starting in background.") >>
         /\ server' = Launched
         /\ pc' = next
         /\ UNCHANGED << exitCode, frames, polls, probe >>

\* CallLlmApi, were the server started whatever the probe answered
CallLlmApiAlwaysStarts ==
    /\ pc = "call_llm_api"
    /\ probe' = ProbeAnswer
    /\ pc' = "llm_start"
    /\ events' = Append(events, Echo("Server is not running. Starting server..."))
    /\ UNCHANGED << env, history, argv, frames, ret, prompt, polls, command, output,
                    execArg, exitCode >>

\* call_llm_api, lines 76-83: the first health probe
CallLlmApi ==
    /\ pc = "call_llm_api"
    /\ probe' = ProbeAnswer
    /\ IF IsServerRunning
       THEN pc' = "llm_post" /\ events' = events
       ELSE /\ pc' = "llm_start"
            /\ events' = Append(events, Echo("Server is not running. Starting server..."))
    /\ UNCHANGED << env, history, argv, frames, ret, prompt, polls, command, output,
                    execArg, exitCode >>

\* call_llm_api, line 83: start_server(config)
CallLlmApiStart ==
    /\ pc = "llm_start"
    /\ StartServer("call_llm_api", "llm_poll")
    /\ UNCHANGED << modelExists, history, argv, ret, prompt, command, output, execArg >>

\* PollsExhausted, were the loop to run once more
PollsExhaustedLate(n) == n > MaxPolls

\* what the waiting loop does after a probe that failed with `n` iterations made:
\* it goes on, or (for-else) gives up and call_llm_api returns None
PollsExhausted(n) == n >= MaxPolls

\* CallLlmApiPoll, were the request made after the loop whether or not a probe
\* succeeded (a break in place of the return)
CallLlmApiPollFallsThrough ==
    /\ pc = "llm_poll"
    /\ IF PollsExhausted(polls)
       THEN /\ events' = Append(events, Echo("Failed to start server."))
            /\ pc' = "llm_post"
            /\ UNCHANGED << frames, ret, polls, probe >>
       ELSE /\ probe' = ProbeAnswer
            /\ IF IsServerRunning
               THEN pc' = "llm_post" /\ polls' = polls
               ELSE pc' = pc /\ polls' = polls + 1
            /\ UNCHANGED << events, frames, ret >>
    /\ UNCHANGED << env, history, argv, prompt, command, output, execArg, exitCode >>

\* call_llm_api, lines 86-93: one iteration of the waiting loop, and the else
\* branch of the loop once range(10) is used up
\* (an iteration whose probe fails prints "Waiting for server to start..." and
\* sleeps one second: polls counts these iterations, the line is not recorded)
CallLlmApiPoll ==
    /\ pc = "llm_poll"
    /\ IF PollsExhausted(polls)
       THEN /\ events' = Append(events, Echo("Failed to start server."))
            /\ pc' = Head(frames)
            /\ frames' = Tail(frames)
            /\ ret' = None
            /\ polls' = 0
            /\ probe' = "none"
       ELSE /\ probe' = ProbeAnswer
            /\ IF IsServerRunning
               THEN pc' = "llm_post" /\ polls' = polls
               ELSE pc' = pc /\ polls' = polls + 1
            /\ UNCHANGED << events, frames, ret >>
    /\ UNCHANGED << env, history, argv, prompt, command, output, execArg, exitCode >>

\* ApiReturn, were the status not looked at
ApiReturnAnyStatus(answer) ==
    IF answer.kind = "http" THEN Some(answer.content) ELSE None

\* call_llm_api, lines 102-122: the value returned for an answer to the request
ApiReturn(answer) ==
    IF answer.kind = "http" /\ answer.status = 200 /\ answer.wellFormed
    THEN Some(answer.content)
    ELSE None

\* call_llm_api, lines 118 and 121: the lines printed for an answer to the request
ApiEchoes(answer) ==
    IF answer.kind = "http" /\ answer.status # 200
    THEN << Echo("Error: API returned status code " \o ToString(answer.status)) >>
    ELSE IF answer.kind = "http" /\ answer.wellFormed
    THEN << >>
    ELSE << Echo("Error calling API: ") >>

\* call_llm_api, lines 101-122: the completion request and what is returned
CallLlmApiPost ==
    /\ pc = "llm_post"
    /\ \E answer \in PostAnswers :
          /\ ret' = ApiReturn(answer)
          /\ events' = events \o << Post(prompt, answer) >> \o ApiEchoes(answer)
    /\ pc' = Head(frames)
    /\ frames' = Tail(frames)
    /\ polls' = 0
    /\ probe' = "none"
    /\ UNCHANGED << env, history, argv, prompt, command, output, execArg, exitCode >>

-----------------------------------------------------------------------------
(* execute_command *)

ProceedQuestion == "This command may modify your system. Proceed?"

\* execute_command, line 178: whether the confirmation is asked before running
NeedsConfirmation(cmd) == Sensitive(cmd)

\* execute_command, lines 175-180: the command is shown and, when it is
\* sensitive, the confirmation is asked
ExecuteCommand ==
    /\ pc = "execute_command"
    /\ IF NeedsConfirmation(execArg)
       THEN \E answer \in BOOLEAN :
               /\ events' = events \o << Echo("Executing: " \o execArg),
                                         Confirm(ProceedQuestion, answer) >>
               /\ IF answer
                  THEN pc' = "exec_run" /\ UNCHANGED << frames, ret >>
                  ELSE /\ pc' = Head(frames)
                       /\ frames' = Tail(frames)
                       /\ ret' = Some(CancelledText)
       ELSE /\ events' = Append(events, Echo("Executing: " \o execArg))
            /\ pc' = "exec_run"
            /\ UNCHANGED << frames, ret >>
    /\ UNCHANGED << env, history, argv, prompt, polls, probe, command, output, execArg,
                    exitCode >>

\* execute_command, lines 183-196: subprocess.run, and the output returned
ExecuteCommandRun ==
    /\ pc = "exec_run"
    /\ \/ \E status \in ExitStatuses, stdout \in Stdouts, stderr \in Stderrs :
             /\ events' = Append(events, Run(execArg, status, stdout, stderr))
             /\ ret' = Some(CombinedOutput(stdout, stderr))
       \/ \E msg \in ExceptionMessages :
             /\ events' = events
             /\ ret' = Some(ExceptionOutput(msg))
    /\ pc' = Head(frames)
    /\ frames' = Tail(frames)
    /\ UNCHANGED << env, history, argv, prompt, polls, probe, command, output, execArg,
                    exitCode >>

-----------------------------------------------------------------------------
(* fix_command_errors *)

FixedQuestion(fixedCommand) ==
    "Would you like to execute the fixed command? [" \o fixedCommand \o "]"

\* fix_command_errors(output, command), lines 200-216: the repair prompt is sent
FixCommandErrors ==
    /\ pc = "fix_command_errors"
    /\ prompt' = RepairPrompt(output, command)
    /\ pc' = "call_llm_api"
    /\ frames' = << "fce_response" >> \o frames
    /\ UNCHANGED << env, history, argv, ret, polls, probe, command, output, execArg,
                    exitCode, events >>

\* FixCommandErrorsResponse, were the line trimmed before it is run and not
\* before it is shown
FixCommandErrorsResponseTrimmed ==
    /\ pc = "fce_response"
    /\ IF Truthy(ret)
       THEN LET commandLines == ScanExtract(ret[1])
                shown == Append(events, Echo("\n" \o ret[1] \o "\n"))
            IN  IF commandLines # << >>
                THEN \E answer \in BOOLEAN :
                        /\ events' = Append(shown, Confirm(FixedQuestion(commandLines[1]), answer))
                        /\ IF answer
                           THEN /\ execArg' = Strip(commandLines[1])
                                /\ pc' = "execute_command"
                                /\ UNCHANGED << frames, ret >>
                           ELSE /\ pc' = Head(frames)
                                /\ frames' = Tail(frames)
                                /\ ret' = None
                                /\ execArg' = execArg
                ELSE /\ events' = shown
                     /\ pc' = Head(frames)
                     /\ frames' = Tail(frames)
                     /\ ret' = None
                     /\ execArg' = execArg
       ELSE /\ pc' = Head(frames)
            /\ frames' = Tail(frames)
            /\ ret' = None
            /\ UNCHANGED << events, execArg >>
    /\ UNCHANGED << env, history, argv, prompt, polls, probe, command, output, exitCode >>

\* FixCommandErrorsResponse, were the command run whatever the user answered
FixCommandErrorsResponseUnasked ==
    /\ pc = "fce_response"
    /\ IF Truthy(ret)
       THEN LET commandLines == ScanExtract(ret[1])
                shown == Append(events, Echo("\n" \o ret[1] \o "\n"))
            IN  IF commandLines # << >>
                THEN \E answer \in BOOLEAN :
                        /\ events' = Append(shown, Confirm(FixedQuestion(commandLines[1]), answer))
                        /\ IF TRUE
                           THEN /\ execArg' = commandLines[1]
                                /\ pc' = "execute_command"
                                /\ UNCHANGED << frames, ret >>
                           ELSE /\ pc' = Head(frames)
                                /\ frames' = Tail(frames)
                                /\ ret' = None
                                /\ execArg' = execArg
                ELSE /\ events' = shown
                     /\ pc' = Head(frames)
                     /\ frames' = Tail(frames)
                     /\ ret' = None
                     /\ execArg' = execArg
       ELSE /\ pc' = Head(frames)
            /\ frames' = Tail(frames)
            /\ ret' = None
            /\ UNCHANGED << events, execArg >>
    /\ UNCHANGED << env, history, argv, prompt, polls, probe, command, output, exitCode >>

\* fix_command_errors, lines 217-235: the response is shown, the command is taken
\* from it, and on confirmation it is run (return execute_command(...))
FixCommandErrorsResponse ==
    /\ pc = "fce_response"
    /\ IF Truthy(ret)
       THEN LET commandLines == ScanExtract(ret[1])
                shown == Append(events, Echo("\n" \o ret[1] \o "\n"))
            IN  IF commandLines # << >>
                THEN \E answer \in BOOLEAN :
                        /\ events' = Append(shown, Confirm(FixedQuestion(commandLines[1]), answer))
                        /\ IF answer
                           THEN /\ execArg' = commandLines[1]
                                /\ pc' = "execute_command"
                                /\ UNCHANGED << frames, ret >>
                           ELSE /\ pc' = Head(frames)
                                /\ frames' = Tail(frames)
                                /\ ret' = None
                                /\ execArg' = execArg
                ELSE /\ events' = shown
                     /\ pc' = Head(frames)
                     /\ frames' = Tail(frames)
                     /\ ret' = None
                     /\ execArg' = execArg
       ELSE /\ pc' = Head(frames)
            /\ frames' = Tail(frames)
            /\ ret' = None
            /\ UNCHANGED << events, execArg >>
    /\ UNCHANGED << env, history, argv, prompt, polls, probe, command, output, exitCode >>

-----------------------------------------------------------------------------
(* generate *)

OfferQuestion == "Would you like me to try to fix any errors in this command?"

\* generate, lines 247-252: the generation prompt is sent
Generate ==
    /\ pc = "generate"
    /\ prompt' = GeneratePrompt(arg)
    /\ pc' = "call_llm_api"
    /\ frames' = << "generate_response" >> \o frames
    /\ events' = Append(events, Echo("Generating command..."))
    /\ UNCHANGED << env, history, argv, ret, polls, probe, command, output, execArg,
                    exitCode >>

\* generate, lines 254-273 and 281-282: the command is taken from the response,
\* shown and saved, and with --execute it is run
GenerateResponse ==
    /\ pc = "generate_response"
    /\ IF Truthy(ret)
       THEN LET extracted == DirectExtract(ret[1])
            IN  /\ command' = extracted
                /\ events' = Append(events, Echo("Generated Command: " \o extracted))
                /\ history' = SaveHistory(history, arg, extracted)
                /\ IF execute
                   THEN /\ execArg' = extracted
                        /\ pc' = "execute_command"
                        /\ frames' = << "generate_output" >> \o frames
                   ELSE /\ pc' = "done"
                        /\ UNCHANGED << execArg, frames >>
       ELSE /\ events' = Append(events, Echo("Failed to generate command."))
            /\ pc' = "done"
            /\ UNCHANGED << command, history, execArg, frames >>
    /\ UNCHANGED << env, argv, ret, prompt, polls, probe, output, exitCode >>

\* generate, lines 273-280: the output is shown and, when it looks like an
\* error, the repair is offered
GenerateOutput ==
    /\ pc = "generate_output"
    /\ output' = ret[1]
    /\ LET shown == Append(events, Echo("Output: " \o ret[1]))
       IN  IF GenerateSeesError(ret[1])
           THEN \E answer \in BOOLEAN :
                   /\ events' = Append(shown, Confirm(OfferQuestion, answer))
                   /\ IF answer
                      THEN /\ pc' = "fix_command_errors"
                           /\ frames' = << "generate_end" >> \o frames
                      ELSE /\ pc' = "done"
                           /\ frames' = frames
           ELSE /\ events' = shown
                /\ pc' = "done"
                /\ frames' = frames
    /\ UNCHANGED << env, history, argv, ret, prompt, polls, probe, command, execArg,
                    exitCode >>

\* generate, line 280: what fix_command_errors returned is dropped
GenerateEnd ==
    /\ pc = "generate_end"
    /\ pc' = "done"
    /\ UNCHANGED << env, history, argv, frames, ret, prompt, polls, probe, command,
                    output, execArg, exitCode, events >>

-----------------------------------------------------------------------------
(* explain *)

\* explain, lines 288-300: the explanation prompt is sent
Explain ==
    /\ pc = "explain"
    /\ prompt' = ExplainPrompt(Join(" ", arg))
    /\ pc' = "call_llm_api"
    /\ frames' = << "explain_response" >> \o frames
    /\ events' = Append(events, Echo("Analyzing command..."))
    /\ UNCHANGED << env, history, argv, ret, polls, probe, command, output, execArg,
                    exitCode >>

\* explain, lines 302-305: the response is shown
ExplainResponse ==
    /\ pc = "explain_response"
    /\ events' = Append(events, Echo(IF Truthy(ret) THEN "\n" \o ret[1]
                                                     ELSE "Failed to analyze command."))
    /\ pc' = "done"
    /\ UNCHANGED << env, history, argv, frames, ret, prompt, polls, probe, command,
                    output, execArg, exitCode >>

-----------------------------------------------------------------------------
(* fix *)

\* fix, lines 311-317: the command is run first
Fix ==
    /\ pc = "fix"
    /\ command' = Join(" ", arg)
    /\ execArg' = Join(" ", arg)
    /\ pc' = "execute_command"
    /\ frames' = << "fix_output" >> \o frames
    /\ events' = Append(events,
           Echo("Attempting to execute command first to see if it has errors..."))
    /\ UNCHANGED << env, history, argv, ret, prompt, polls, probe, output, exitCode >>

\* fix, lines 319-324 and 328-330: the output is shown as a failure and the
\* repair started, or it is shown as a success
FixOutput ==
    /\ pc = "fix_output"
    /\ output' = ret[1]
    /\ IF FixSeesError(ret[1])
       THEN /\ events' = events \o << Echo("Command had errors:"), Echo(ret[1]),
                                      Echo("\nAttempting to fix the command...") >>
            /\ pc' = "fix_command_errors"
            /\ frames' = << "fix_fixed" >> \o frames
       ELSE /\ events' = events \o << Echo("Command executed successfully:"), Echo(ret[1]) >>
            /\ pc' = "done"
            /\ frames' = frames
    /\ UNCHANGED << env, history, argv, ret, prompt, polls, probe, command, execArg,
                    exitCode >>

\* FixFixed, were a repaired command that fails repaired again
FixFixedAgain ==
    /\ pc = "fix_fixed"
    /\ IF Truthy(ret) /\ FixSeesError(ret[1])
       THEN /\ events' = events \o << Echo("\nOutput from fixed command:"), Echo(ret[1]) >>
            /\ output' = ret[1]
            /\ command' = execArg
            /\ pc' = "fix_command_errors"
            /\ frames' = << "fix_fixed" >> \o frames
       ELSE /\ events' = IF Truthy(ret)
                         THEN events \o << Echo("\nOutput from fixed command:"), Echo(ret[1]) >>
                         ELSE events
            /\ pc' = "done"
            /\ UNCHANGED << frames, command, output >>
    /\ UNCHANGED << env, history, argv, ret, prompt, polls, probe, execArg, exitCode >>

\* fix, lines 324-327: the output of the repaired command is shown
FixFixed ==
    /\ pc = "fix_fixed"
    /\ events' = IF Truthy(ret)
                 THEN events \o << Echo("\nOutput from fixed command:"), Echo(ret[1]) >>
                 ELSE events
    /\ pc' = "done"
    /\ UNCHANGED << env, history, argv, frames, ret, prompt, polls, probe, command,
                    output, execArg, exitCode >>

-----------------------------------------------------------------------------
(* server *)

RestartQuestion == "Would you like to restart the server?"
StartQuestion == "Would you like to start the server?"

\* server, lines 387-391: the health probe
Server ==
    /\ pc = "server"
    /\ probe' = ProbeAnswer
    /\ pc' = "server_probed"
    /\ UNCHANGED << env, history, argv, frames, ret, prompt, polls, command, output,
                    execArg, exitCode, events >>

\* server, lines 392-395 and 398-399: whether the user is asked to restart
\* (the server runs) or to start (it does not), by the probe's answer
ServerQuestion(lastProbe) == IF lastProbe = "up" THEN RestartQuestion ELSE StartQuestion

\* server, lines 391-400: the state is shown and the user is asked
ServerAsk ==
    /\ pc = "server_probed"
    /\ \E answer \in BOOLEAN :
          /\ events' = events \o
                << Echo(IF probe = "up" THEN "Server is running" ELSE "Server is not running."),
                   Confirm(ServerQuestion(probe), answer) >>
                \o (IF probe = "up" /\ answer THEN << Echo("Restarting server...") >> ELSE << >>)
          /\ pc' = IF answer THEN "server_start" ELSE "done"
    /\ UNCHANGED << env, history, argv, frames, ret, prompt, polls, probe, command,
                    output, execArg, exitCode >>

\* server, lines 396 and 400: start_server(config)
ServerStart ==
    /\ pc = "server_start"
    /\ StartServer("server", "done")
    /\ UNCHANGED << modelExists, history, argv, ret, prompt, command, output, execArg >>

-----------------------------------------------------------------------------
(* The completion server, outside the program *)

\* a launched server has loaded the model and answers /health
ServerReady ==
    /\ Running
    /\ server = "starting"
    /\ server' = "up"
    /\ UNCHANGED << modelExists, history, argv, pc, frames, ret, prompt, polls, probe,
                    command, output, execArg, exitCode, events >>

\* a launched or running server ends (llama-server not found, a crash)
ServerStops ==
    /\ Running
    /\ server \in {"starting", "up"}
    /\ server' = "down"
    /\ UNCHANGED << modelExists, history, argv, pc, frames, ret, prompt, polls, probe,
                    command, output, execArg, exitCode, events >>

-----------------------------------------------------------------------------

Next ==
    \/ Generate \/ GenerateResponse \/ GenerateOutput \/ GenerateEnd
    \/ Explain \/ ExplainResponse
    \/ Fix \/ FixOutput \/ FixFixed
    \/ Server \/ ServerAsk \/ ServerStart
    \/ CallLlmApi \/ CallLlmApiStart \/ CallLlmApiPoll \/ CallLlmApiPost
    \/ ExecuteCommand \/ ExecuteCommandRun
    \/ FixCommandErrors \/ FixCommandErrorsResponse
    \/ ServerReady \/ ServerStops

Spec == Init /\ [][Next]_vars

-----------------------------------------------------------------------------
(* The history file over successive invocations of generate *)

\* the history file as earlier invocations left it: n entries, oldest first
StoredHistory(n) ==
    [i \in 1..n |-> [description |-> "earlier", command |-> ToString(i)]]

\* the sizes of the history file an invocation may find
StoredSizes == {0, HistoryCap - 1, HistoryCap}

\* the number of invocations of generate followed
MaxSaves == 3

\* the commands generate saves: what it extracts from a non-empty response
SavedCommands == {DirectExtract(r) : r \in Responses \ {""}}

Saved(description, cmd) == [kind |-> "save", text |-> cmd, description |-> description]

InitHistory ==
    /\ server = "up"
    /\ modelExists = TRUE
    /\ history \in {StoredHistory(n) : n \in StoredSizes}
    /\ sub = "generate" /\ arg \in Descriptions /\ execute = FALSE
    /\ pc = "generate_response"
    /\ frames = << >>
    /\ ret = None
    /\ prompt = ""
    /\ polls = 0
    /\ probe = "none"
    /\ command = ""
    /\ output = ""
    /\ execArg = ""
    /\ exitCode = 0
    /\ events = << >>

\* generate, line 269: one more invocation saves the command it extracted
GenerateSaves ==
    /\ Len(events) < MaxSaves
    /\ \E description \in Descriptions, cmd \in SavedCommands :
          /\ history' = SaveHistory(history, description, cmd)
          /\ events' = Append(events, Saved(description, cmd))
    /\ UNCHANGED << env, argv, pc, frames, ret, prompt, polls, probe, command,
                    output, execArg, exitCode >>

NextHistory == GenerateSaves

SpecHistory == InitHistory /\ [][NextHistory]_vars

-----------------------------------------------------------------------------
(* Two invocations of `explain` running at once against one endpoint: each has
   its own position, probe result, loop counter and return value; the server
   and the terminal are shared *)

Invocations == {"first", "second"}

InitConcurrent ==
    /\ server = "down"
    /\ modelExists \in BOOLEAN
    /\ history = << >>
    /\ sub = "explain" /\ arg = << "ls", "-la" >> /\ execute = FALSE
    /\ pc = [p \in Invocations |-> "call_llm_api"]
    /\ frames = << >>
    /\ ret = [p \in Invocations |-> None]
    /\ prompt = ExplainPrompt(Join(" ", arg))
    /\ polls = [p \in Invocations |-> 0]
    /\ probe = [p \in Invocations |-> "none"]
    /\ command = ""
    /\ output = ""
    /\ execArg = ""
    /\ exitCode = 0
    /\ events = << >>

\* call_llm_api of invocation p, lines 76-83: the first health probe
ConcurrentProbe(p) ==
    /\ pc[p] = "call_llm_api"
    /\ probe' = [probe EXCEPT ![p] = ProbeAnswer]
    /\ IF IsServerRunning
       THEN pc' = [pc EXCEPT ![p] = "llm_post"] /\ events' = events
       ELSE /\ pc' = [pc EXCEPT ![p] = "llm_start"]
            /\ events' = Append(events, Echo("Server is not running. Starting server..."))
    /\ UNCHANGED << env, history, argv, frames, ret, prompt, polls, command, output,
                    execArg, exitCode >>

\* call_llm_api of invocation p, line 83: start_server(config), lines 124-169
ConcurrentStart(p) ==
    /\ pc[p] = "llm_start"
    /\ IF ~modelExists
       THEN /\ events' = Append(events, Echo("Error: Model not found"))
            /\ pc' = [pc EXCEPT ![p] = "exited"]
            /\ server' = server
       ELSE /\ events' = events \o << Launch(p, probe[p]),
                                      Echo("Server starting in background.") >>
            /\ server' = Launched
            /\ pc' = [pc EXCEPT ![p] = "llm_poll"]
    /\ UNCHANGED << modelExists, history, argv, frames, ret, prompt, polls, probe,
                    command, output, execArg, exitCode >>

\* call_llm_api of invocation p, lines 86-93: one iteration of the waiting loop,
\* and the else branch of the loop
ConcurrentPoll(p) ==
    /\ pc[p] = "llm_poll"
    /\ IF PollsExhausted(polls[p])
       THEN /\ events' = Append(events, Echo("Failed to start server."))
            /\ pc' = [pc EXCEPT ![p] = "done"]
            /\ polls' = [polls EXCEPT ![p] = 0]
            /\ probe' = [probe EXCEPT ![p] = "none"]
       ELSE /\ probe' = [probe EXCEPT ![p] = ProbeAnswer]
            /\ IF IsServerRunning
               THEN pc' = [pc EXCEPT ![p] = "llm_post"] /\ polls' = polls
               ELSE pc' = pc /\ polls' = [polls EXCEPT ![p] = polls[p] + 1]
            /\ events' = events
    /\ UNCHANGED << env, history, argv, frames, ret, prompt, command, output, execArg,
                    exitCode >>

\* call_llm_api of invocation p, lines 101-122: the completion request
ConcurrentPost(p) ==
    /\ pc[p] = "llm_post"
    /\ \E answer \in PostAnswers :
          /\ ret' = [ret EXCEPT ![p] = ApiReturn(answer)]
          /\ events' = events \o << Post(prompt, answer) >> \o ApiEchoes(answer)
    /\ pc' = [pc EXCEPT ![p] = "done"]
    /\ polls' = [polls EXCEPT ![p] = 0]
    /\ probe' = [probe EXCEPT ![p] = "none"]
    /\ UNCHANGED << env, history, argv, frames, prompt, command, output, execArg,
                    exitCode >>

\* the launched server has loaded the model and answers /health
ConcurrentServerReady ==
    /\ \E p \in Invocations : pc[p] \notin {"done", "exited"}
    /\ server = "starting"
    /\ server' = "up"
    /\ UNCHANGED << modelExists, history, argv, pc, frames, ret, prompt, polls, probe,
                    command, output, execArg, exitCode, events >>

NextConcurrent ==
    \/ \E p \in Invocations : ConcurrentProbe(p)
    \/ \E p \in Invocations : ConcurrentStart(p)
    \/ \E p \in Invocations : ConcurrentPoll(p)
    \/ \E p \in Invocations : ConcurrentPost(p)
    \/ ConcurrentServerReady

SpecConcurrent == InitConcurrent /\ [][NextConcurrent]_vars

-----------------------------------------------------------------------------
(* Properties *)

\* the positions of the events of one kind
EventsOfKind(k) == {i \in DOMAIN events : events[i].kind = k}

\* a completion request that carries a repair prompt
IsRepairPost(e) == e.kind = "post" /\ StartsWith(e.text, "\nThe following Linux command failed:")

\* the user accepting to run a repaired command
IsRepairAccepted(e) ==
    e.kind = "confirm" /\ StartsWith(e.text, "Would you like to execute the fixed command?")
        /\ e.answer

\* the subprocesses started for a repaired command: those after an accepted repair
RepairedRuns ==
    {i \in EventsOfKind("run") : \E j \in 1..(i - 1) : IsRepairAccepted(events[j])}

\* the subprocess started for the original command: before any repair prompt
OriginalRuns ==
    {i \in EventsOfKind("run") : \A j \in 1..(i - 1) : ~IsRepairPost(events[j])}

\* the output of a subprocess shows a failure marker
HasFailureMarker(text) ==
    Contains(Lower(text), "error") \/ Contains(Lower(text), "not found")

\* C1: in one invocation at most one repair prompt is sent and at most one
\* repaired command is run, and once a repaired command has run nothing more is
\* asked of the model and nothing more is run, whether it failed or not.
C1_AtMostOneRepair ==
    /\ Cardinality({i \in DOMAIN events : IsRepairPost(events[i])}) <= 1
    /\ Cardinality({i \in DOMAIN events : IsRepairAccepted(events[i])}) <= 1
    /\ Cardinality(RepairedRuns) <= 1
    /\ \A i \in RepairedRuns : \A j \in (i + 1)..Len(events) :
          events[j].kind \notin {"post", "run", "confirm"}
    /\ \A i \in RepairedRuns : pc \in {"fix_fixed", "generate_end", "done"}

\* C1's case: fix has ended after the original command failed and the repaired
\* command failed too
C1_Witness ==
    /\ sub = "fix" /\ pc = "done"
    /\ \E i \in OriginalRuns, j \in RepairedRuns :
          /\ events[i].status # 0 /\ HasFailureMarker(events[i].stderr)
          /\ events[j].status # 0 /\ HasFailureMarker(events[j].stderr)

\* the denylist as the specification gives it
C2_Denylist == {"rm", "sudo", "dd", "mkfs", "> /dev", "chmod", "reboot", "shutdown"}

C2_Denylisted(cmd) == \E w \in C2_Denylist : Contains(cmd, w)

\* C2: a subprocess for a command that contains a denylisted token is started
\* only right after the confirmation was asked and accepted in that call of
\* execute_command; a subprocess for a command without any is started right
\* after the command was shown, no confirmation being asked.
C2_ConfirmationGate ==
    /\ \A i \in EventsOfKind("run") :
          /\ i > 2
          /\ IF C2_Denylisted(events[i].text)
             THEN /\ events[i - 1] = Confirm(ProceedQuestion, TRUE)
                  /\ events[i - 2] = Echo("Executing: " \o events[i].text)
             ELSE events[i - 1] = Echo("Executing: " \o events[i].text)
    /\ pc = "exec_run" =>
          events[Len(events)] = IF C2_Denylisted(execArg)
                                THEN Confirm(ProceedQuestion, TRUE)
                                ELSE Echo("Executing: " \o execArg)

\* C2's case: a command that contains a denylisted token inside a word has run
\* after the confirmation, and a command without any has run too
C2_Witness ==
    /\ \E i \in EventsOfKind("run") : events[i].text = "echo inform"
    /\ \E i \in EventsOfKind("run") : ~C2_Denylisted(events[i].text)

\* the places execute_command returns to
ExecuteReturns == {"fix_output", "generate_output", "fix_fixed", "generate_end"}

\* C3: when the confirmation of a sensitive command is declined no subprocess is
\* run and the result states the cancellation, and that result tells the caller
\* that the command was cancelled: no command that ran returns it.
C3_CancelledIsTold ==
    LET n == Len(events)
    IN  /\ (pc \in ExecuteReturns /\ n > 0 /\ events[n] = Confirm(ProceedQuestion, FALSE))
             => ret = Some(CancelledText)
        /\ (pc \in ExecuteReturns /\ ret = Some(CancelledText))
             => (n > 0 /\ events[n] = Confirm(ProceedQuestion, FALSE))


\* C4: when the first health probe of call_llm_api succeeds, the next thing the
\* call does is the completion request: start_server is not called, no launcher
\* is started and the waiting loop is not entered.
C4_HealthyNoLaunch ==
    [][ /\ (pc = "call_llm_api" /\ probe' = "up") =>
             (pc' = "llm_post" /\ events' = events /\ polls' = 0 /\ server' = server)
        /\ (pc = "llm_post" /\ pc' # pc) =>
             (/\ Len(events') > Len(events)
              /\ events'[Len(events) + 1].kind = "post"
              /\ \A i \in (Len(events) + 1)..Len(events') : events'[i].kind # "launch"
              /\ server' = server)
      ]_vars

\* C4's case: the first probe of a call succeeded and the request is next, no
\* launcher having been started in the invocation
C4_Witness ==
    pc = "llm_post" /\ probe = "up" /\ polls = 0 /\ EventsOfKind("launch") = {}

\* C5: in every operation that can launch the server (call_llm_api and the
\* `server` subcommand) the launcher is started only when the health probe made
\* just before in that operation found the server not running.
C5_LaunchOnlyWhenDown ==
    \A i \in EventsOfKind("launch") : events[i].probe = "down"

\* C6: after the launch call_llm_api probes at most 10 times; the first probe
\* that succeeds ends the loop and the completion request is next; after 10
\* probes that failed the call returns None and no request is made.
C6_BoundedPolling ==
    /\ [](polls <= 10)
    /\ [](pc = "llm_post" => probe = "up")
    /\ [][ /\ (pc = "llm_poll" /\ probe' = "up") => (polls < 10 /\ pc' = "llm_post")
           /\ (pc = "llm_poll" /\ polls' = polls + 1) => (probe' = "down" /\ pc' = "llm_poll")
           /\ (pc = "llm_poll" /\ pc' \notin {"llm_poll", "llm_post"}) =>
                (/\ polls = 10
                 /\ ret' = None
                 /\ pc' = Head(frames)
                 /\ events' = Append(events, Echo("Failed to start server.")))
         ]_vars

\* C6's case: ten probes after the launch have failed
C6_Witness == pc = "llm_poll" /\ polls = 10 /\ EventsOfKind("launch") # {}

\* the places call_llm_api returns to
ApiReturns == {"generate_response", "explain_response", "fce_response"}

\* call_llm_api has just given up waiting for the server and returned
GaveUp ==
    /\ pc \in ApiReturns
    /\ Len(events) > 0 /\ events[Len(events)] = Echo("Failed to start server.")

\* C7, as claimed: a completion request is made only after a health probe that
\* succeeded in the same call, and when the server cannot be made available
\* (the waiting loop is used up, or the model file is missing) call_llm_api
\* returns a failure to its caller, without a request and without ending the
\* process.
C7_FailureIsReturned ==
    /\ pc = "llm_post" => probe = "up"
    /\ GaveUp => ret = None
    /\ ~(pc = "exited" /\ frames # << >>)

\* C7, amended: a completion request is made only after a health probe that
\* succeeded in the same call; when the waiting loop is used up call_llm_api
\* returns None to its caller, the launch being the last thing done before;
\* when the model file is missing start_server ends the process with status 1,
\* no launcher being started and no request made in that call.
C7_FailureReturnedOrExit ==
    /\ pc = "llm_post" => probe = "up"
    /\ GaveUp =>
          /\ ret = None
          /\ events[Len(events) - 1] = Echo("Server starting in background.")
          /\ events[Len(events) - 2].kind = "launch"
    /\ pc = "exited" =>
          /\ ~modelExists /\ exitCode = 1
          /\ events[Len(events)] = Echo("Error: Model not found")
          /\ frames # << >> =>
                events[Len(events) - 1] = Echo("Server is not running. Starting server...")
    /\ pc # "exited" => exitCode = 0

\* C7's case: the waiting loop was used up and call_llm_api has returned
C7_Witness == GaveUp /\ ret = None

\* the kinds of result the specification gives call_llm_api
C8_Kind(answer) ==
    IF answer.kind = "fault" THEN "TransportError"
    ELSE IF answer.status = 200 THEN "Success"
    ELSE "HttpError"

\* C8, as claimed: call_llm_api returns the content exactly when the status is
\* 200, and the values it returns for two answers of different kinds (Success,
\* HttpError, TransportError) differ, so that the caller can tell them apart.
C8_OutcomesDistinct ==
    pc = "llm_post" =>
        /\ \A a \in PostAnswers :
              (a.kind = "http" /\ a.status = 200) <=> ApiReturn(a) = Some(a.content)
        /\ \A a, b \in PostAnswers : C8_Kind(a) # C8_Kind(b) => ApiReturn(a) # ApiReturn(b)

\* C8, amended: call_llm_api returns the first choice's content when the status
\* is 200 and the body holds it, and None for every other answer: a status
\* other than 200 (the status is printed, not returned), a transport fault, a
\* body without the content (both printed as an error calling the API); the
\* call always returns to its caller.
C8_ContentOrNone ==
    [][ (pc = "llm_post" /\ pc' # pc) =>
          LET a == events'[Len(events) + 1].answer
          IN  /\ pc' = Head(frames) /\ frames' = Tail(frames)
              /\ IF a.kind = "http" /\ a.status = 200 /\ a.wellFormed
                 THEN /\ ret' = Some(a.content)
                      /\ Len(events') = Len(events) + 1
                 ELSE /\ ret' = None
                      /\ Len(events') = Len(events) + 2
                      /\ events'[Len(events) + 2] =
                            IF a.kind = "http" /\ a.status # 200
                            THEN Echo("Error: API returned status code " \o ToString(a.status))
                            ELSE Echo("Error calling API: ")
      ]_vars

\* C8's case: the server has answered with a status other than 200 and
\* call_llm_api has returned
C8_Witness ==
    /\ pc \in ApiReturns /\ ret = None
    /\ Len(events) > 1
    /\ events[Len(events)] = Echo("Error: API returned status code 500")
    /\ events[Len(events) - 1].kind = "post"

\* the original command's subprocess signals a failure: a status other than 0
\* or a failure marker on stderr
SignalsFailure(e) == e.status # 0 \/ HasFailureMarker(e.stderr)

\* the invocation is past the test of the output of the original command
PastOutputTest ==
    pc \in {"fix_command_errors", "call_llm_api", "llm_start", "llm_poll", "llm_post",
            "fce_response", "fix_fixed", "generate_end", "done", "exited"}
        \/ (pc \in {"execute_command", "exec_run"} /\ \E i \in DOMAIN events : IsRepairPost(events[i]))

\* C9: when the command run through fix signals a failure (a status other than
\* 0, or a failure marker on stderr) the invocation enters the repair path: the
\* repair prompt, which embeds the command and the captured output, is handed
\* to call_llm_api.
C9_FailureIsRepaired ==
    \A i \in OriginalRuns :
        (sub = "fix" /\ PastOutputTest /\ SignalsFailure(events[i])) =>
            LET captured == CombinedOutput(events[i].stdout, events[i].stderr)
            IN  /\ \E j \in (i + 1)..Len(events) :
                      events[j] = Echo("\nAttempting to fix the command...")
                /\ pc # "fix_command_errors" =>
                      (/\ prompt = RepairPrompt(captured, events[i].text)
                       /\ Contains(prompt, events[i].text)
                       /\ Contains(prompt, captured))

\* C10: when the original command ran and shows no failure signal (status 0 and
\* no failure marker on stderr), fix and generate --execute end there: no repair
\* prompt is sent and no repair is offered, whatever is on stdout.
C10_SuccessIsDone ==
    \A i \in OriginalRuns :
        (sub \in {"fix", "generate"} /\ ~SignalsFailure(events[i])) =>
            /\ pc \in {"fix_output", "generate_output", "done"}
            /\ \A j \in (i + 1)..Len(events) :
                  /\ ~IsRepairPost(events[j])
                  /\ events[j] # Echo("\nAttempting to fix the command...")
                  /\ events[j].kind # "confirm"


\* the subprocesses started, and the commands announced, after a repair prompt
AfterRepairPost(i) == \E j \in 1..(i - 1) : IsRepairPost(events[j])

\* the command an "Executing:" line announces
Announced(text) == SubSeq(text, Len("Executing: ") + 1, Len(text))

\* C11: a command taken from the model's answer to a repair prompt is passed to
\* execute_command only right after the user was asked about that very command
\* and accepted, and the subprocess then started runs the command that was
\* shown in the question.
C11_RepairedIsConfirmed ==
    /\ \A i \in EventsOfKind("echo") :
          (StartsWith(events[i].text, "Executing: ") /\ AfterRepairPost(i)) =>
              events[i - 1] = Confirm(FixedQuestion(Announced(events[i].text)), TRUE)
    /\ \A i \in EventsOfKind("run") :
          AfterRepairPost(i) =>
              \E j \in 1..(i - 1) :
                  /\ AfterRepairPost(j)
                  /\ events[j] = Confirm(FixedQuestion(events[i].text), TRUE)
    /\ (pc \in {"execute_command", "exec_run"} /\ AfterRepairPost(Len(events) + 1)) =>
          \E j \in DOMAIN events : events[j] = Confirm(FixedQuestion(execArg), TRUE)

\* C11's case: a repaired command that was shown and accepted has been run
C11_Witness ==
    \E i \in EventsOfKind("run") :
        /\ AfterRepairPost(i)
        /\ \E j \in 1..(i - 1) : events[j] = Confirm(FixedQuestion(events[i].text), TRUE)


\* the event with which an invocation enters the repair path
IsRepairEntry(e) ==
    e = Echo("\nAttempting to fix the command...") \/ e = Confirm(OfferQuestion, TRUE)

\* the repair that was entered at event k has come to nothing: the completion
\* call did not succeed (no server, or an answer that is not a success), or
\* its answer holds no candidate, or the user declined the candidate
RepairCameToNothing(k) ==
    \E j \in (k + 1)..Len(events) :
        \/ events[j] = Echo("Failed to start server.")
        \/ /\ IsRepairPost(events[j])
           /\ LET a == events[j].answer
              IN  \/ ~(a.kind = "http" /\ a.status = 200 /\ a.wellFormed)
                  \/ (pc # "fce_response" /\ ScanExtract(a.content) = << >>)
        \/ /\ events[j].kind = "confirm"
           /\ StartsWith(events[j].text, "Would you like to execute the fixed command?")
           /\ ~events[j].answer

\* C12: in the repair path, when the completion call does not succeed, or the
\* answer holds no candidate, or the user declines the candidate, no command is
\* passed to execute_command, fix_command_errors returns None and the invocation
\* ends, the output of the original command being the only one reported.
C12_NoRepairNoResult ==
    \A k \in DOMAIN events :
        (IsRepairEntry(events[k]) /\ RepairCameToNothing(k)) =>
            /\ pc \in {"fce_response", "fix_fixed", "generate_end", "done"}
            /\ pc = "fix_fixed" => ret = None
            /\ \A j \in (k + 1)..Len(events) :
                  /\ events[j].kind # "run"
                  /\ events[j].kind = "echo" =>
                        /\ ~StartsWith(events[j].text, "Executing: ")
                        /\ events[j].text # "\nOutput from fixed command:"
            /\ sub = "fix" =>
                  (events[k - 2] = Echo("Command had errors:") /\ events[k - 1] = Echo(output))
            /\ sub = "generate" => events[k - 1] = Echo("Output: " \o output)

\* C12's case: fix has ended after the user declined the repaired command
C12_Witness ==
    /\ sub = "fix" /\ pc = "done"
    /\ \E k \in DOMAIN events : IsRepairEntry(events[k]) /\ RepairCameToNothing(k)
    /\ \E j \in EventsOfKind("confirm") :
          StartsWith(events[j].text, "Would you like to execute the fixed command?")
              /\ ~events[j].answer


\* a fence line, and a comment line as the claim counts it: the # may follow
\* whitespace
C13_IsFence(line) == StartsWith(Strip(line), FENCE)
C13_IsComment(line) == StartsWith(Strip(line), "#")

RECURSIVE C13_Body(_, _)
\* the non-empty, non-comment lines inside the fenced blocks of the lines
C13_Body(lines, inBlock) ==
    IF lines = << >> THEN << >>
    ELSE IF C13_IsFence(Head(lines)) THEN C13_Body(Tail(lines), ~inBlock)
    ELSE IF inBlock /\ Strip(Head(lines)) # "" /\ ~C13_IsComment(Head(lines))
    THEN << Head(lines) >> \o C13_Body(Tail(lines), inBlock)
    ELSE C13_Body(Tail(lines), inBlock)

\* the response holds exactly one fenced block
C13_OneBlock(response) ==
    LET lines == Split(response, "\n")
    IN  Cardinality({i \in DOMAIN lines : C13_IsFence(lines[i])}) = 2

\* C13: when the answer to a repair prompt holds exactly one fenced block whose
\* body has exactly one non-empty, non-comment line, the candidate the user is
\* asked about is that line; when no fenced block holds such a line there is no
\* candidate and nothing is asked.  A line whose # follows whitespace is a
\* comment.
C13_ScanFindsTheLine ==
    \A i \in DOMAIN events :
        (/\ IsRepairPost(events[i])
         /\ events[i].answer.kind = "http" /\ events[i].answer.status = 200
         /\ events[i].answer.wellFormed
         /\ pc # "fce_response") =>
            LET response == events[i].answer.content
                body == C13_Body(Split(response, "\n"), FALSE)
            IN  /\ (C13_OneBlock(response) /\ Len(body) = 1) =>
                      /\ Len(events) >= i + 2
                      /\ events[i + 2].kind = "confirm"
                      /\ events[i + 2].text = FixedQuestion(body[1])
                /\ body = << >> =>
                      \A j \in (i + 1)..Len(events) : events[j].kind # "confirm"


\* the response, trimmed, starts and ends with a fence and carries a language
\* tag right after the opening fence
C14_Wrapped(response) ==
    LET s == Strip(response)
    IN  /\ Len(s) > 2 * Len(FENCE)
        /\ StartsWith(s, FENCE) /\ EndsWith(s, FENCE)
        /\ CharAt(s, Len(FENCE) + 1) \notin Whitespace \cup {"^"}

\* the inner content of such a response: what is between the fences, without
\* the language tag, trimmed
C14_Inner(response) ==
    LET s == Strip(response)
        inner == SubSeq(s, Len(FENCE) + 1, Len(s) - Len(FENCE))
        blanks == {i \in 1..Len(inner) : CharAt(inner, i) \in Whitespace}
        tagEnd == IF blanks = {} THEN Len(inner) + 1
                  ELSE CHOOSE i \in blanks : \A j \in blanks : i <= j
    IN  Strip(SubSeq(inner, tagEnd, Len(inner)))

\* C14: when the answer to generate's prompt, trimmed, starts and ends with a
\* fence and carries a language tag, the command generate shows is the inner
\* content of the fence, trimmed, without the tag and without any fence marker,
\* whether the block spans several lines or is written on one line.
C14_DirectStripsTheFence ==
    \A i \in EventsOfKind("post") :
        (/\ sub = "generate" /\ ~IsRepairPost(events[i])
         /\ events[i].answer.kind = "http" /\ events[i].answer.status = 200
         /\ events[i].answer.wellFormed
         /\ C14_Wrapped(events[i].answer.content)
         /\ pc # "generate_response") =>
            /\ Len(events) > i
            /\ events[i + 1] = Echo("Generated Command: " \o C14_Inner(events[i].answer.content))
            /\ ~Contains(command, FENCE)


\* the posts of generate's own prompt that the server answered with a
\* well-formed 200
GenerationAnswers ==
    {i \in EventsOfKind("post") :
        /\ sub = "generate" /\ ~IsRepairPost(events[i])
        /\ events[i].answer.kind = "http" /\ events[i].answer.status = 200
        /\ events[i].answer.wellFormed}

\* the response is empty, or nothing is left of it once the fence is stripped
\* and the result trimmed
C15_YieldsNoCommand(response) ==
    response = "" \/ DirectExtract(response) = ""

\* C15: in generate, when the model's response yields no command (it is empty,
\* or the extracted command is empty), the invocation reports a generation
\* failure, writes no history entry and executes nothing.
C15_EmptyIsFailure ==
    \A i \in GenerationAnswers :
        (C15_YieldsNoCommand(events[i].answer.content) /\ pc # "generate_response") =>
            /\ Len(events) > i
            /\ events[i + 1] = Echo("Failed to generate command.")
            /\ history = << >>
            /\ pc = "done"
            /\ \A j \in (i + 1)..Len(events) : events[j].kind \notin {"run", "confirm"}


\* the entry of the latest save_history call
LastSaved ==
    [description |-> events[Len(events)].description, command |-> events[Len(events)].text]

\* one call of save_history appends its entry at the end and, when the file
\* held 100 entries, drops exactly the oldest one
C16_AppendDropsOldest ==
    IF events' # events
    THEN IF Len(history) < HistoryCap
         THEN history' = Append(history, LastSaved')
         ELSE history' = Append(Tail(history), LastSaved')
    ELSE history' = history

\* C16: after any sequence of save_history calls the history file holds at most
\* 100 entries, and they are the most recently appended ones in append order:
\* appending to a history of 100 entries drops exactly the oldest one.
C16_HistoryKeepsLast100 ==
    /\ [](Len(history) <= HistoryCap)
    /\ [][C16_AppendDropsOldest]_vars

\* a full history file to which more than one entry was appended: the oldest
\* entries are gone and the appended ones are at the end
C16_Witness ==
    /\ Len(events) > 1
    /\ Len(history) = HistoryCap
    /\ history[1].command # "1"
    /\ history[HistoryCap] = LastSaved


\* C17: fix reports "Command executed successfully" only when the command was
\* actually run as a subprocess: when the execution was cancelled at the
\* confirmation gate, or could not be started, fix neither reports success nor
\* enters the repair path.
C17_SuccessMeansRan ==
    sub = "fix" =>
        \A i \in DOMAIN events :
            (\/ events[i] = Echo("Command executed successfully:")
             \/ events[i] = Echo("\nAttempting to fix the command...")
             \/ IsRepairPost(events[i])) =>
                \E j \in 1..(i - 1) : events[j].kind = "run"


\* C18: whenever a repaired command is executed, in fix or in generate
\* --execute, the output captured from that execution, an empty one included,
\* is reported to the user before the invocation ends.
C18_RepairedOutputIsShown ==
    \A i \in RepairedRuns :
        (sub \in {"fix", "generate"} /\ pc = "done") =>
            \E j \in (i + 1)..Len(events) :
                /\ events[j].kind = "echo"
                /\ events[j].text \in
                      { CombinedOutput(events[i].stdout, events[i].stderr),
                        "Output: " \o CombinedOutput(events[i].stdout, events[i].stderr) }


\* C19: when two invocations run at once against an endpoint that is
\* unreachable at first, at most one server launch happens in total across
\* both, for every interleaving of their health probes and launches.
C19_AtMostOneLaunch ==
    Cardinality(EventsOfKind("launch")) <= 1

=============================================================================
